---- MODULE Spec2Model ----
(***************************************************************************)
(* The notebooks of the repository as one sequential state machine.        *)
(*                                                                         *)
(*   5_2_model_evaluation.ipynb  cell 4f039983  hold-out validation        *)
(*                               cell 15ea261f  K-fold validation          *)
(*                               cell cb571a38  iterated K-fold (prose)    *)
(*   5_1_convnet_introduction.ipynb, unnamed/part_000                      *)
(*                               cells 4545d540, 7c1b82dc  model assembly  *)
(*                                                                         *)
(* One run executes one cell, statement by statement; pc is the source     *)
(* line of the statement that runs next.  data, test_data and get_model    *)
(* are free names of the cells: the dataset is a sequence of sample ids,   *)
(* get_model() is an opaque collaborator whose calls are kept in log.      *)
(***************************************************************************)
EXTENDS Integers, Sequences, FiniteSets, TLC

VARIABLES
    cell,                   \* the cell this run executes
    pc,                     \* the statement that runs next
    dataset,                \* the value of data before the cell runs
    data,                   \* data
    shuffled,               \* data as the last np.random.shuffle left it
    earlier,                \* what an earlier run of the cell produced
    test_data,              \* test_data
    num_validation_samples, \* num_validation_samples
    k,                      \* k
    fold,                   \* fold
    iterations,             \* P, the number of K-fold runs
    iteration,              \* the K-fold run in progress
    validation_data,        \* validation_data
    training_data,          \* training_data
    bound,                  \* the names the cell has assigned so far
    model,                  \* model
    models,                 \* the number of get_model() calls so far
    validation_score,       \* validation_score
    validation_scores,      \* validation_scores
    run_scores,             \* the validation score of each finished K-fold run
    fold_scores,            \* every score appended to validation_scores, over all runs
    test_score,             \* test_score
    log,                    \* the calls made on models, in order
    raised,                 \* the call that raised, "" while none has
    step,                   \* statements of the model assembly executed
    shape,                  \* output shape of the last layer built
    outputs,                \* output shape of every layer of the model, in order
    summary,                \* the output shapes model.summary() printed last
    params,                 \* parameter count of every layer of the model, in order
    totals                  \* the "Total params" of every model.summary() so far

vars == <<cell, pc, dataset, data, shuffled, earlier, test_data, num_validation_samples, k, fold,
          iterations, iteration, validation_data, training_data, bound, model,
          models, validation_score, validation_scores, run_scores, fold_scores,
          test_score, log,
          raised, step, shape, outputs, summary, params, totals>>

-----------------------------------------------------------------------------
(* Bounds of the model *)

MaxD == 4
MaxN == 5
MaxK == 3
MaxP == 2
MaxScore == 1
TestSize == 2

-----------------------------------------------------------------------------
(* Python and numpy values *)

Min(a, b) == IF a < b THEN a ELSE b
Max(a, b) == IF a > b THEN a ELSE b

Range(s) == {s[i] : i \in 1..Len(s)}

\* A slice bound as Python normalises it: a negative bound counts from the
\* end, and every bound is clamped into 0..len.
SliceIndex(i, len) == IF i < 0 THEN Max(i + len, 0) ELSE Min(i, len)

\* s[lo:hi]
Slice(s, lo, hi) ==
    LET a == SliceIndex(lo, Len(s))
        b == SliceIndex(hi, Len(s))
    IN  IF a < b THEN [i \in 1..(b - a) |-> s[a + i]] ELSE <<>>

\* s[:hi]
SliceTo(s, hi) == Slice(s, 0, hi)

\* s[lo:]
SliceFrom(s, lo) == Slice(s, lo, Len(s))

\* a // b for b > 0
FloorDiv(a, b) == a \div b

PyInt(i) == [type |-> "int", val |-> i]
PyArray(s) == [type |-> "array", val |-> s]
PyList(l) == [type |-> "list", val |-> l]

RECURSIVE Join(_)
Join(arrays) ==
    IF arrays = <<>> THEN <<>> ELSE Head(arrays).val \o Join(Tail(arrays))

\* axis=0, numpy's default
DefaultAxis == PyInt(0)

\* np.concatenate(arrays, axis): arrays is a sequence of arrays and axis an
\* integer.  Anything else raises: an array (or list) given as axis cannot be
\* converted to an index.
NpConcatenate(arrays, axis) ==
    IF axis.type = "int" /\ arrays.type = "list" /\ Len(arrays.val) > 0
    THEN [raised |-> FALSE, val |-> Join(arrays.val)]
    ELSE [raised |-> TRUE, val |-> <<>>]

\* np.random.shuffle(x): any reordering of x
Shuffles(s) ==
    {p \in [1..Len(s) -> Range(s)] : \A i, j \in 1..Len(s) : i # j => p[i] # p[j]}

\* Scores are exact rationals <<numerator, denominator>>; <<0, 0>> is nan.
Score(s) == <<s, 1>>
Nan == <<0, 0>>
RatAdd(x, y) == <<x[1] * y[2] + y[1] * x[2], x[2] * y[2]>>

RatEq(x, y) == x[1] * y[2] = y[1] * x[2] /\ (x[2] = 0) = (y[2] = 0)

RECURSIVE RatSum(_)
RatSum(s) == IF s = <<>> THEN <<0, 1>> ELSE RatAdd(Head(s), RatSum(Tail(s)))

\* np.average(scores): the sum over the count, nan for no scores
NpAverage(scores) ==
    IF scores = <<>> THEN Nan
    ELSE <<RatSum(scores)[1], RatSum(scores)[2] * Len(scores)>>

-----------------------------------------------------------------------------
(* The collaborators: get_model(), model.train, model.evaluate *)

NoModel == [id |-> 0, fits |-> <<>>]
Scores == {Score(s) : s \in 0..MaxScore}
Unset == <<0, 0>>

\* get_model(): a brand-new, untrained model
NewModel(n) == [id |-> n + 1, fits |-> <<>>]

\* m.train(x)
Trained(m, x) == [m EXCEPT !.fits = Append(@, x)]

Call(op, m, arg) == [op |-> op, model |-> m.id, fits |-> m.fits, arg |-> arg]

-----------------------------------------------------------------------------
(* Initial state: the cell to run and the names it finds defined *)

DataCells == {"holdout", "kfold"}
ConvnetCells == {"sequential", "functional"}
Cells == DataCells \cup ConvnetCells

Start(c) == CASE c = "holdout" -> "ho67"
              [] c = "kfold" -> "kf127"
              [] c \in ConvnetCells -> "build"

Datasets == {[i \in 1..d |-> i] : d \in 0..MaxD}

\* The record of a run of the hold-out split; NoRun while the cell has run once
NoRun == [ran |-> FALSE, shuffled |-> <<>>, validation_data |-> <<>>,
          training_data |-> <<>>]
TestData == [i \in 1..TestSize |-> MaxD + 1 + i]

Init ==
    /\ cell \in Cells
    /\ pc = Start(cell)
    /\ dataset \in (IF cell \in DataCells THEN Datasets ELSE {<<>>})
    /\ data = dataset
    /\ shuffled = <<>>
    /\ earlier = NoRun
    /\ test_data = TestData
    /\ num_validation_samples = 0
    /\ k = 0
    /\ fold = 0
    /\ iterations = 0
    /\ iteration = 0
    /\ validation_data = <<>>
    /\ training_data = <<>>
    /\ bound = {}
    /\ model = NoModel
    /\ models = 0
    /\ validation_score = Unset
    /\ validation_scores = <<>>
    /\ run_scores = <<>>
    /\ fold_scores = <<>>
    /\ test_score = Unset
    /\ log = <<>>
    /\ raised = ""
    /\ step = 0
    /\ shape = <<>>
    /\ outputs = <<>>
    /\ summary = <<>>
    /\ params = <<>>
    /\ totals = <<>>

-----------------------------------------------------------------------------
(* Expressions of the cells *)

\* Mutant: the slice bound grows by what an earlier run left in validation_data.
HoldOutValidationDataStale ==
    SliceTo(data, num_validation_samples + Len(validation_data))

\* data[:num_validation_samples]
HoldOutValidationData == SliceTo(data, num_validation_samples)

\* Mutants of the split: a remainder that starts one sample late, and one
\* that starts one sample early.
HoldOutRemainderLate == SliceFrom(data, num_validation_samples + 1)
HoldOutRemainderEarly == SliceFrom(data, Max(num_validation_samples - 1, 0))

\* data[num_validation_samples:]
HoldOutRemainder == SliceFrom(data, num_validation_samples)

\* Mutant: the final model is trained on training_data alone.
HoldOutFinalInputTrainingOnly ==
    NpConcatenate(PyList(<<PyArray(training_data)>>), DefaultAxis)

\* np.concatenate([training_data, validation_data])
HoldOutFinalInput ==
    NpConcatenate(PyList(<<PyArray(training_data), PyArray(validation_data)>>),
                  DefaultAxis)

\* Mutant: the block size rounded up instead of down.
KFoldValidationSizeCeil == FloorDiv(Len(data) + k - 1, k)

\* len(data) // k
KFoldValidationSize == FloorDiv(Len(data), k)

\* Mutant: a block that runs one sample into the next block.
ValidationBlockOverlap(d, n, f) == Slice(d, n * f, n * (f + 1) + 1)

\* data[num_validation_samples * fold : num_validation_samples * (fold + 1)]
ValidationBlock(d, n, f) == Slice(d, n * f, n * (f + 1))

\* np.concatenate(data[:num_validation_samples * fold],
\*                data[num_validation_samples * (fold + 1):])
\* The second slice is passed in the place of axis.
KFoldTrainingData ==
    NpConcatenate(PyArray(SliceTo(data, num_validation_samples * fold)),
                  PyArray(SliceFrom(data, num_validation_samples * (fold + 1))))

Value(x) == [raised |-> FALSE, val |-> x]

\* The argument of model.train at each of its call sites
TrainArgument ==
    CASE pc = "ho82" -> Value(training_data)
      [] pc = "ho92" -> HoldOutFinalInput
      [] pc = "kf143" -> Value(training_data)
      [] pc = "kf152" -> Value(data)

\* The argument of model.evaluate / model.evaluation at each call site
EvaluateArgument ==
    CASE pc = "ho83" -> validation_data
      [] pc = "ho93" -> test_data
      [] pc = "kf144" -> validation_data
      [] pc = "kf153" -> test_data

\* The statement after each call site
After ==
    [p \in {"ho81", "ho82", "ho83", "ho91", "ho92", "ho93",
            "kf142", "kf143", "kf144", "kf151", "kf152", "kf153"} |->
        CASE p = "ho81" -> "ho82"
          [] p = "ho82" -> "ho83"
          [] p = "ho83" -> "ho91"
          [] p = "ho91" -> "ho92"
          [] p = "ho92" -> "ho93"
          [] p = "ho93" -> "done"
          [] p = "kf142" -> "kf143"
          [] p = "kf143" -> "kf144"
          [] p = "kf144" -> "kf145"
          [] p = "kf151" -> "kf152"
          [] p = "kf152" -> "kf153"
          [] p = "kf153" -> "done"]

-----------------------------------------------------------------------------
(* Hold-out validation, cell 4f039983 *)

given == <<cell, dataset, test_data>>
inputs == <<given, shuffled, earlier>>
loop == <<k, fold, iterations, iteration>>
scores == <<validation_score, validation_scores, run_scores, fold_scores,
            test_score>>
collaborators == <<model, models, log>>
assembly == <<step, shape, outputs, summary, params, totals>>

\* num_validation_samples = 10000
HoldOutSetSize ==
    /\ pc = "ho67"
    /\ \E n \in 0..MaxN : num_validation_samples' = n
    /\ pc' = "ho70"
    /\ UNCHANGED <<inputs, loop, scores, collaborators, assembly, data,
                   validation_data, training_data, bound, raised>>

\* np.random.shuffle(data)
Shuffle ==
    /\ pc \in {"ho70", "kf129"}
    /\ data' \in Shuffles(data)
    /\ shuffled' = data'
    /\ pc' = (IF pc = "ho70" THEN "ho73" ELSE "kf131")
    /\ UNCHANGED <<given, earlier, loop, scores, collaborators, assembly,
                   num_validation_samples, validation_data, training_data,
                   bound, raised>>

\* validation_data = data[:num_validation_samples]
HoldOutValidation ==
    /\ pc = "ho73"
    /\ validation_data' = HoldOutValidationData
    /\ bound' = bound \cup {"validation_data"}
    /\ pc' = "ho74"
    /\ UNCHANGED <<inputs, loop, scores, collaborators, assembly, data,
                   num_validation_samples, training_data, raised>>

\* data = data[num_validation_samples:]
HoldOutRest ==
    /\ pc = "ho74"
    /\ data' = HoldOutRemainder
    /\ pc' = "ho77"
    /\ UNCHANGED <<inputs, loop, scores, collaborators, assembly,
                   num_validation_samples, validation_data, training_data,
                   bound, raised>>

\* training_data = data[:]
HoldOutTraining ==
    /\ pc = "ho77"
    /\ training_data' = SliceFrom(data, 0)
    /\ bound' = bound \cup {"training_data"}
    /\ pc' = "ho81"
    /\ UNCHANGED <<inputs, loop, scores, collaborators, assembly, data,
                   num_validation_samples, validation_data, raised>>

\* The cell is run a second time on the same dataset, as in "different random
\* shuffling rounds of the data before splitting": data is the dataset again,
\* num_validation_samples is the same literal, and the names the first run
\* assigned keep their values until the second run assigns them.
Rerun ==
    /\ pc = "ho81"
    /\ ~earlier.ran
    /\ earlier' = [ran |-> TRUE, shuffled |-> shuffled,
                   validation_data |-> validation_data,
                   training_data |-> training_data]
    /\ data' = dataset
    /\ pc' = "ho70"
    /\ UNCHANGED <<given, shuffled, loop, scores, collaborators, assembly,
                   num_validation_samples, validation_data, training_data,
                   bound, raised>>

-----------------------------------------------------------------------------
(* The calls on models, in both cells *)

\* model = get_model()
GetModel ==
    /\ pc \in {"ho81", "ho91", "kf142", "kf151"}
    /\ model' = NewModel(models)
    /\ models' = models + 1
    /\ log' = Append(log, Call("get_model", model', <<>>))
    /\ pc' = After[pc]
    /\ UNCHANGED <<inputs, loop, scores, assembly, data, num_validation_samples,
                   validation_data, training_data, bound, raised>>

\* model.train(...)
Train ==
    /\ pc \in {"ho82", "ho92", "kf143", "kf152"}
    /\ LET x == TrainArgument
       IN  IF x.raised
           THEN /\ pc' = "raised"
                /\ raised' = "np.concatenate"
                /\ UNCHANGED <<model, log>>
           ELSE /\ model' = Trained(model, x.val)
                /\ log' = Append(log, Call("train", model, x.val))
                /\ pc' = After[pc]
                /\ UNCHANGED raised
    /\ UNCHANGED <<inputs, loop, scores, assembly, data, num_validation_samples,
                   validation_data, training_data, bound, models>>

\* validation_score = model.evaluation(validation_data)    (hold-out)
\* validation_score = model.evaluate(validation_data)      (K-fold)
\* test_score = model.evaluate(test_data)
\* The model owns no method the cells do not call: evaluation is taken to be
\* evaluate, and a score is any value the collaborator may return.
Evaluate ==
    /\ pc \in {"ho83", "ho93", "kf144", "kf153"}
    /\ \E s \in Scores :
          IF pc \in {"ho93", "kf153"}
          THEN test_score' = s /\ UNCHANGED validation_score
          ELSE validation_score' = s /\ UNCHANGED test_score
    /\ log' = Append(log, Call("evaluate", model, EvaluateArgument))
    /\ pc' = After[pc]
    /\ UNCHANGED <<inputs, loop, assembly, data, num_validation_samples,
                   validation_data, training_data, bound, raised, model, models,
                   validation_scores, run_scores, fold_scores>>

-----------------------------------------------------------------------------
(* K-fold validation, cell 15ea261f; run P times, cell cb571a38 *)

\* k = 4, and the number of runs P of iterated K-fold (1: the cell as written)
KFoldSetFolds ==
    /\ pc = "kf127"
    /\ \E kk \in 1..MaxK : k' = kk
    /\ \E p \in 1..MaxP : iterations' = p
    /\ pc' = "kf128"
    /\ UNCHANGED <<inputs, scores, collaborators, assembly, data, fold,
                   iteration, num_validation_samples, validation_data,
                   training_data, bound, raised>>

\* num_validation_samples = len(data) // k
KFoldSize ==
    /\ pc = "kf128"
    /\ num_validation_samples' = KFoldValidationSize
    /\ pc' = "kf129"
    /\ UNCHANGED <<inputs, loop, scores, collaborators, assembly, data,
                   validation_data, training_data, bound, raised>>

\* Mutant: validation_scores is not emptied when a run starts.
KFoldScoresKeepsScores ==
    /\ pc \in {"kf131", "kf145", "kf148"}
    /\ CASE pc = "kf131" ->
              /\ validation_scores' = validation_scores
              /\ pc' = "kf132"
              /\ UNCHANGED <<validation_score, run_scores, fold_scores, iteration>>
         [] pc = "kf145" ->
              /\ validation_scores' = Append(validation_scores, validation_score)
              /\ fold_scores' = Append(fold_scores, validation_score)
              /\ pc' = "kf132n"
              /\ UNCHANGED <<validation_score, run_scores, iteration>>
         [] pc = "kf148" ->
              /\ validation_score' = NpAverage(validation_scores)
              /\ run_scores' = Append(run_scores, validation_score')
              /\ iteration' = iteration + 1
              /\ pc' = (IF iteration + 1 < iterations THEN "kf129" ELSE "kf151")
              /\ UNCHANGED <<validation_scores, fold_scores>>
    /\ UNCHANGED <<inputs, collaborators, assembly, data, k, fold, iterations,
                   test_score, num_validation_samples, validation_data,
                   training_data, bound, raised>>

\* validation_scores = []
\* validation_scores.append(validation_score)
\* validation_score = np.average(validation_scores), which ends one run:
\* the next run reshuffles, the last one goes on to the final model.
\* "The final score is the average of the scores obtained at each run."
KFoldScores ==
    /\ pc \in {"kf131", "kf145", "kf148"}
    /\ CASE pc = "kf131" ->
              /\ validation_scores' = <<>>
              /\ pc' = "kf132"
              /\ UNCHANGED <<validation_score, run_scores, fold_scores, iteration>>
         [] pc = "kf145" ->
              /\ validation_scores' = Append(validation_scores, validation_score)
              /\ fold_scores' = Append(fold_scores, validation_score)
              /\ pc' = "kf132n"
              /\ UNCHANGED <<validation_score, run_scores, iteration>>
         [] pc = "kf148" ->
              /\ validation_score' = NpAverage(validation_scores)
              /\ run_scores' = Append(run_scores, validation_score')
              /\ iteration' = iteration + 1
              /\ pc' = (IF iteration + 1 < iterations THEN "kf129" ELSE "kf151")
              /\ UNCHANGED <<validation_scores, fold_scores>>
    /\ UNCHANGED <<inputs, collaborators, assembly, data, k, fold, iterations,
                   test_score, num_validation_samples, validation_data,
                   training_data, bound, raised>>

\* The final score of iterated K-fold: the average of the run scores
IteratedScore == NpAverage(run_scores)

\* for fold in range(k):
KFoldLoop ==
    /\ pc \in {"kf132", "kf132n"}
    /\ LET next == IF pc = "kf132" THEN 0 ELSE fold + 1
       IN  IF next < k
           THEN /\ fold' = next
                /\ bound' = bound \cup {"fold"}
                /\ pc' = "kf134"
           ELSE /\ pc' = "kf148"
                /\ UNCHANGED <<fold, bound>>
    /\ UNCHANGED <<inputs, scores, collaborators, assembly, data, k, iterations,
                   iteration, num_validation_samples, validation_data,
                   training_data, raised>>

\* validation_data = data[num_validation_samples * fold:
\*                        num_validation_samples * (fold + 1)]
KFoldValidation ==
    /\ pc = "kf134"
    /\ validation_data' = ValidationBlock(data, num_validation_samples, fold)
    /\ bound' = bound \cup {"validation_data"}
    /\ pc' = "kf137"
    /\ UNCHANGED <<inputs, loop, scores, collaborators, assembly, data,
                   num_validation_samples, training_data, raised>>

\* training_data = np.concatenate(data[:num_validation_samples * fold],
\*                                data[num_validation_samples * (fold + 1):])
KFoldTraining ==
    /\ pc = "kf137"
    /\ LET x == KFoldTrainingData
       IN  IF x.raised
           THEN /\ pc' = "raised"
                /\ raised' = "np.concatenate"
                /\ UNCHANGED <<training_data, bound>>
           ELSE /\ training_data' = x.val
                /\ bound' = bound \cup {"training_data"}
                /\ pc' = "kf142"
                /\ UNCHANGED raised
    /\ UNCHANGED <<inputs, loop, scores, collaborators, assembly, data,
                   num_validation_samples, validation_data>>

-----------------------------------------------------------------------------
(* Model assembly, cells 4545d540 and 7c1b82dc *)

Layer(op, filters, size, input) ==
    [op |-> op, filters |-> filters, size |-> size, input |-> input]

\* input_shape=(28, 28, 1), keras.Input(shape=(28, 28, 1))
ImageSide == 28
ImageShape == <<ImageSide, ImageSide, 1>>

\* 5_1_convnet_introduction.ipynb: model.add(...), model.summary()
SequentialProgram ==
    << Layer("conv", 32, 3, ImageShape),
       Layer("pool", 0, 2, <<>>),
       Layer("conv", 64, 3, <<>>),
       Layer("pool", 0, 2, <<>>),
       Layer("conv", 64, 3, <<>>),
       Layer("summary", 0, 0, <<>>),
       Layer("flatten", 0, 0, <<>>),
       Layer("dense", 64, 0, <<>>),
       Layer("dense", 10, 0, <<>>),
       Layer("summary", 0, 0, <<>>) >>

\* unnamed/part_000: x = layers....(x), model.summary()
FunctionalProgram ==
    << Layer("input", 0, 0, ImageShape),
       Layer("conv", 32, 3, <<>>),
       Layer("pool", 0, 2, <<>>),
       Layer("conv", 64, 3, <<>>),
       Layer("pool", 0, 2, <<>>),
       Layer("conv", 128, 3, <<>>),
       Layer("flatten", 0, 0, <<>>),
       Layer("dense", 10, 0, <<>>),
       Layer("summary", 0, 0, <<>>) >>

Program(c) == IF c = "sequential" THEN SequentialProgram ELSE FunctionalProgram

\* Mutant: padding "same", which keeps the side.
ConvSideSame(s, kernel) == s

\* Conv2D with the default strides (1) and padding ("valid")
ConvSide(s, kernel) == (s - kernel) \div 1 + 1

\* MaxPooling2D with the default strides (the pool size) and padding ("valid")
PoolSide(s, pool) == (s - pool) \div pool + 1

\* The output shape of a layer applied to an input of shape x
LayerOutput(x, layer) ==
    CASE layer.op = "input" -> layer.input
      [] layer.op = "conv" ->
            <<ConvSide(x[1], layer.size), ConvSide(x[2], layer.size), layer.filters>>
      [] layer.op = "pool" ->
            <<PoolSide(x[1], layer.size), PoolSide(x[2], layer.size), x[3]>>
      [] layer.op = "flatten" -> <<x[1] * x[2] * x[3]>>
      [] layer.op = "dense" -> <<layer.filters>>

\* Mutant: layers built without bias terms.
LayerParamsNoBias(x, layer) ==
    CASE layer.op = "conv" -> layer.size * layer.size * x[3] * layer.filters
      [] layer.op = "dense" -> x[1] * layer.filters
      [] OTHER -> 0

\* The parameter count of a layer applied to an input of shape x: a kernel
\* (or weight matrix) and one bias per filter (or unit)
LayerParams(x, layer) ==
    CASE layer.op = "conv" ->
            layer.size * layer.size * x[3] * layer.filters + layer.filters
      [] layer.op = "dense" -> x[1] * layer.filters + layer.filters
      [] OTHER -> 0

RECURSIVE SumSeq(_)
SumSeq(s) == IF s = <<>> THEN 0 ELSE Head(s) + SumSeq(Tail(s))

\* model.add(layer), x = layer(x)
AddLayer ==
    /\ pc = "build"
    /\ Program(cell)[step + 1].op # "summary"
    /\ LET layer == Program(cell)[step + 1]
           x == IF layer.input # <<>> THEN layer.input ELSE shape
       IN  /\ shape' = LayerOutput(x, layer)
           /\ outputs' = Append(outputs, shape')
           /\ params' = Append(params, LayerParams(x, layer))
    /\ step' = step + 1
    /\ pc' = (IF step' = Len(Program(cell)) THEN "done" ELSE "build")
    /\ UNCHANGED <<inputs, loop, scores, collaborators, data,
                   num_validation_samples, validation_data, training_data,
                   bound, raised, summary, totals>>

\* model.summary()
Summary ==
    /\ pc = "build"
    /\ Program(cell)[step + 1].op = "summary"
    /\ summary' = outputs
    /\ totals' = Append(totals, SumSeq(params))
    /\ step' = step + 1
    /\ pc' = (IF step' = Len(Program(cell)) THEN "done" ELSE "build")
    /\ UNCHANGED <<inputs, loop, scores, collaborators, data,
                   num_validation_samples, validation_data, training_data,
                   bound, raised, shape, outputs, params>>

\* The tables printed in the notebooks' outputs: the Output Shape column
SequentialPrinted ==
    << <<26, 26, 32>>, <<13, 13, 32>>, <<11, 11, 64>>, <<5, 5, 64>>, <<3, 3, 64>>,
       <<576>>, <<64>>, <<10>> >>

FunctionalPrinted ==
    << <<28, 28, 1>>, <<26, 26, 32>>, <<13, 13, 32>>, <<11, 11, 64>>, <<5, 5, 64>>,
       <<3, 3, 128>>, <<1152>>, <<10>> >>

Printed(c) == IF c = "sequential" THEN SequentialPrinted ELSE FunctionalPrinted

\* The Param # column of the printed tables
SequentialPrintedParams == <<320, 0, 18496, 0, 36928, 0, 36928, 650>>
FunctionalPrintedParams == <<0, 320, 0, 18496, 0, 73856, 0, 11530>>

PrintedParams(c) ==
    IF c = "sequential" THEN SequentialPrintedParams ELSE FunctionalPrintedParams

\* The "Total params" lines of the printed tables, in the order printed
SequentialPrintedTotals == <<55744, 93322>>
FunctionalPrintedTotals == <<104202>>

PrintedTotals(c) ==
    IF c = "sequential" THEN SequentialPrintedTotals ELSE FunctionalPrintedTotals

-----------------------------------------------------------------------------

Next ==
    \/ HoldOutSetSize
    \/ Shuffle
    \/ HoldOutValidation
    \/ HoldOutRest
    \/ HoldOutTraining
    \/ GetModel
    \/ Train
    \/ Evaluate
    \/ KFoldSetFolds
    \/ KFoldSize
    \/ KFoldScores
    \/ KFoldLoop
    \/ KFoldValidation
    \/ KFoldTraining
    \/ AddLayer
    \/ Summary

Spec == Init /\ [][Next]_vars

\* Two runs of the hold-out split on the same dataset
TwoRunsInit == Init /\ cell = "holdout"

TwoRunsNext ==
    \/ HoldOutSetSize
    \/ Shuffle
    \/ HoldOutValidation
    \/ HoldOutRest
    \/ HoldOutTraining
    \/ Rerun

TwoRuns == TwoRunsInit /\ [][TwoRunsNext]_vars

\* The scoring of iterated K-fold on every assignment of fold scores: the
\* statements that keep the scores run as in the cell, and the body of a fold
\* (lines 134-144) is taken only as the source of that fold's score.
AnyFoldScore ==
    /\ pc = "kf134"
    /\ \E s \in Scores : validation_score' = s
    /\ pc' = "kf145"
    /\ UNCHANGED <<inputs, loop, collaborators, assembly, data,
                   num_validation_samples, validation_data, training_data,
                   bound, raised, validation_scores, run_scores, fold_scores,
                   test_score>>

ScoringInit == Init /\ cell = "kfold" /\ dataset = <<>>

ScoringNext ==
    \/ KFoldSetFolds
    \/ KFoldSize
    \/ Shuffle
    \/ KFoldScores
    \/ KFoldLoop
    \/ AnyFoldScore

Scoring == ScoringInit /\ [][ScoringNext]_vars

-----------------------------------------------------------------------------
(* States the properties speak of *)

\* The hold-out split (lines 70-77) has run.
HoldOutSplitDone ==
    /\ cell = "holdout"
    /\ pc \in {"ho81", "ho82", "ho83", "ho91", "ho92", "ho93", "done"}

\* The K-fold cell has computed the block size and shuffled.
KFoldShuffled ==
    /\ cell = "kfold"
    /\ pc \notin {"kf127", "kf128", "kf129"}

\* The K-fold loop body is past the assignment of validation_data.
KFoldPastValidation ==
    /\ cell = "kfold"
    /\ pc \in {"kf137", "kf142", "kf143", "kf144", "kf145", "raised"}

\* The K-fold loop body is past the statement that assigns training_data,
\* whether it assigned or raised.
KFoldPastTraining ==
    /\ cell = "kfold"
    /\ pc \in {"kf142", "kf143", "kf144", "kf145", "raised"}

\* The folds whose validation block holds the sample at position p of data
FoldsHolding(p) ==
    {f \in 0..(k - 1) :
        data[p] \in Range(ValidationBlock(data, num_validation_samples, f))}

IsReordering(s, t) == Len(s) = Len(t) /\ Range(s) = Range(t)

-----------------------------------------------------------------------------
(* C1: K-fold coverage *)

\* C1 as stated: after the shuffle, every sample position of the dataset lies
\* in the validation block of exactly one of the folds 0..K-1.
C1_EveryPositionInOneBlock ==
    KFoldShuffled => \A p \in 1..Len(data) : Cardinality(FoldsHolding(p)) = 1

\* C1 as amended: the K validation blocks data[n*i : n*(i+1)] are disjoint and
\* cover exactly the first K * (D // K) positions of the shuffled dataset, each
\* once; the last D mod K positions lie in the validation block of no fold.
C1_BlocksCoverAllButRemainder ==
    KFoldShuffled =>
        \A p \in 1..Len(data) :
            Cardinality(FoldsHolding(p)) =
                (IF p <= k * (Len(dataset) \div k) THEN 1 ELSE 0)

C1_Witness ==
    /\ KFoldPastValidation
    /\ Len(data) % k # 0
    /\ num_validation_samples >= 1
    /\ validation_data # <<>>

-----------------------------------------------------------------------------
(* C2: hold-out sizes *)

\* C2 as stated: after the hold-out split of a dataset of size D with
\* validation size N, len(validation_data) = N and len(training_data) = D - N.
C2_SizesAreNAndDMinusN ==
    HoldOutSplitDone =>
        /\ Len(validation_data) = num_validation_samples
        /\ Len(training_data) = Len(dataset) - num_validation_samples

\* C2 as amended: len(validation_data) = min(N, D) and len(training_data) =
\* D - min(N, D); these are N and D - N exactly when N <= D.
C2_SizesAreClamped ==
    HoldOutSplitDone =>
        /\ Len(validation_data) = Min(num_validation_samples, Len(dataset))
        /\ Len(training_data) =
              Len(dataset) - Min(num_validation_samples, Len(dataset))

C2_Witness ==
    /\ HoldOutSplitDone
    /\ num_validation_samples > 0
    /\ num_validation_samples < Len(dataset)

-----------------------------------------------------------------------------
(* C3: hold-out disjointness *)

\* C3: after the hold-out split no sample position of the shuffled dataset is
\* in both validation_data and training_data.
C3_HoldOutDisjoint ==
    HoldOutSplitDone => Range(validation_data) \cap Range(training_data) = {}

C3_Witness ==
    /\ HoldOutSplitDone
    /\ validation_data # <<>>
    /\ training_data # <<>>

-----------------------------------------------------------------------------
(* C4: K-fold validation size *)

\* C4: for every fold index i in 0..K-1 the validation block of fold i has
\* exactly D // K samples, and so has the validation_data the loop assigns.
C4_BlockSize ==
    /\ KFoldShuffled =>
          \A f \in 0..(k - 1) :
              Len(ValidationBlock(data, num_validation_samples, f)) =
                  Len(dataset) \div k
    /\ KFoldPastValidation => Len(validation_data) = Len(dataset) \div k

C4_Witness ==
    /\ KFoldPastValidation
    /\ k > 1
    /\ Len(dataset) % k # 0
    /\ Len(validation_data) = 1

-----------------------------------------------------------------------------
(* C5: K-fold per-fold reconstruction *)

\* C5: once a fold is past the assignment of training_data, the samples of its
\* training_data together with those of its validation_data are all the
\* samples of the shuffled dataset.
C5_FoldReconstructsDataset ==
    KFoldPastTraining =>
        /\ "training_data" \in bound
        /\ Range(training_data) \cup Range(validation_data) = Range(data)

-----------------------------------------------------------------------------
(* C6: K-fold per-fold disjointness *)

-----------------------------------------------------------------------------
(* C7: layer-shape arithmetic *)

\* The rule as the claim states it: a convolution with kernel size kernel and
\* no padding maps a side s to s - (kernel - 1), a pooling stage with window
\* w maps it to floor(s / w).
ClaimedSide(s, layer) ==
    IF layer.op = "conv" THEN s - (layer.size - 1) ELSE s \div layer.size

\* The first of the five stages conv, pool, conv, pool, conv among the layers
\* of the model: the functional model lists its input layer before them.
FirstStage == IF cell = "functional" THEN 2 ELSE 1

StageSides == <<26, 13, 11, 5, 3>>

\* C7: every convolution and pooling stage built so far has the side the rule
\* gives for the side it was applied to; the five stages conv(3), pool(2),
\* conv(3), pool(2), conv(3) on the 28x28 input have sides 26, 13, 11, 5, 3;
\* and every table model.summary() prints is the one the notebook shows.
C7_LayerShapes ==
    cell \in ConvnetCells =>
        /\ \A i \in 1..Len(outputs) :
              LET layer == Program(cell)[IF cell = "sequential" /\ i > 5
                                         THEN i + 1 ELSE i]
                  before == IF i = 1 THEN ImageShape ELSE outputs[i - 1]
              IN  layer.op \in {"conv", "pool"} =>
                     /\ outputs[i][1] = ClaimedSide(before[1], layer)
                     /\ outputs[i][2] = ClaimedSide(before[2], layer)
        /\ \A j \in 1..5 :
              FirstStage + j - 1 <= Len(outputs) =>
                 /\ outputs[FirstStage + j - 1][1] = StageSides[j]
                 /\ outputs[FirstStage + j - 1][2] = StageSides[j]
        /\ summary = SubSeq(Printed(cell), 1, Len(summary))

C7_Witness ==
    /\ cell \in ConvnetCells
    /\ pc = "done"
    /\ Len(summary) = Len(Printed(cell))

-----------------------------------------------------------------------------
(* C8: iterated K-fold run count *)

\* The train-and-evaluate runs made so far: the evaluations of a trained model
\* on validation data.
TrainEvaluateRuns ==
    Len(SelectSeq(log, LAMBDA c : c.op = "evaluate" /\ c.fits # <<>>
                                  /\ c.arg # test_data))

\* C8: when the P runs of K-fold have ended, exactly P x K train-and-evaluate
\* runs have been made.
C8_RunCount ==
    (cell = "kfold" /\ pc \in {"kf151", "kf152", "kf153", "done", "raised"}) =>
        TrainEvaluateRuns = iterations * k

-----------------------------------------------------------------------------
(* C9: hold-out final retrain *)

\* C9: whenever test_data is scored in the hold-out cell, the model scored was
\* created by the get_model() call two calls before, distinct from every model
\* created earlier, and has been trained once in between, on training_data
\* followed by validation_data, an input that holds every sample of the
\* original dataset exactly once; and the cell ends with test_data scored.
C9_FinalRetrain ==
    cell = "holdout" =>
        /\ \A i \in 1..Len(log) :
              (log[i].op = "evaluate" /\ log[i].arg = test_data) =>
                 /\ i >= 3
                 /\ log[i - 2].op = "get_model"
                 /\ log[i - 2].model = log[i].model
                 /\ \A j \in 1..(i - 3) : log[j].model # log[i].model
                 /\ log[i - 1].op = "train"
                 /\ log[i - 1].model = log[i].model
                 /\ log[i - 1].fits = <<>>
                 /\ log[i - 1].arg = training_data \o validation_data
                 /\ IsReordering(log[i - 1].arg, dataset)
                 /\ log[i].fits = <<log[i - 1].arg>>
        /\ pc = "done" =>
              /\ log # <<>>
              /\ log[Len(log)].op = "evaluate"
              /\ log[Len(log)].arg = test_data

C9_Witness ==
    /\ cell = "holdout"
    /\ pc = "done"
    /\ validation_data # <<>>
    /\ training_data # <<>>
    /\ test_score # Unset

-----------------------------------------------------------------------------
(* C10: K-fold training order *)

\* C10: once a fold is past the assignment of training_data, training_data is
\* the shuffled dataset with the fold's block removed: data[:n*i] followed by
\* data[n*(i+1):].
C10_TrainingIsDataWithoutBlock ==
    KFoldPastTraining =>
        /\ "training_data" \in bound
        /\ training_data =
              SliceTo(data, num_validation_samples * fold)
                 \o SliceFrom(data, num_validation_samples * (fold + 1))

-----------------------------------------------------------------------------
(* C11: K-fold reporting order *)

\* The K-fold cell as written (one run) has stopped, finished or raised.
KFoldCellStopped ==
    /\ cell = "kfold"
    /\ iterations = 1
    /\ pc \in {"done", "raised"}

\* C11: when the K-fold cell has stopped, validation_scores holds exactly K
\* scores, validation_score is their mean, and after that mean was taken a new
\* model was trained on all of data and then scored on test_data: the last
\* three calls are get_model, train on data, evaluate on test_data.
C11_ReportThenRetrain ==
    KFoldCellStopped =>
        /\ Len(validation_scores) = k
        /\ validation_score = NpAverage(validation_scores)
        /\ Len(log) >= 3
        /\ log[Len(log) - 2].op = "get_model"
        /\ log[Len(log) - 1].op = "train"
        /\ log[Len(log) - 1].arg = data
        /\ log[Len(log)].op = "evaluate"
        /\ log[Len(log)].arg = test_data

-----------------------------------------------------------------------------
(* C12: hold-out determinism *)

\* The second of two runs of the hold-out split has finished the split.
SecondSplitDone ==
    /\ earlier.ran
    /\ HoldOutSplitDone

-----------------------------------------------------------------------------
(* C13: iterated K-fold score *)

-----------------------------------------------------------------------------
(* C15: no leak between folds *)

-----------------------------------------------------------------------------
(* C16: test data isolation *)

\* The calls made so far that were given test_data
TestDataCalls == SelectSeq(log, LAMBDA c : c.op # "get_model" /\ c.arg = test_data)

\* C16: in the hold-out and the K-fold cell no training call is given a sample
\* of test_data, validation_data and training_data hold none, and when the cell
\* has stopped test_data has been used exactly once, by the evaluate call of
\* the model created last, which is the last call of the cell.
C16_TestDataIsolation ==
    cell \in DataCells =>
        /\ \A i \in 1..Len(log) :
              log[i].op = "train" => Range(log[i].arg) \cap Range(test_data) = {}
        /\ Range(validation_data) \cap Range(test_data) = {}
        /\ Range(training_data) \cap Range(test_data) = {}
        /\ Len(TestDataCalls) <= 1
        /\ pc \in {"done", "raised"} =>
              /\ Len(TestDataCalls) = 1
              /\ log[Len(log)].op = "evaluate"
              /\ log[Len(log)].arg = test_data
              /\ log[Len(log)].model = models

-----------------------------------------------------------------------------
(* C17: K-fold remainder disposition *)

\* The last D mod K samples of the shuffled dataset
Remainder == Range(SliceFrom(data, k * (Len(data) \div k)))

\* C17: the last D mod K samples of the shuffled dataset are in the
\* validation block of no fold; once a fold is past the assignment of
\* training_data they are all in its training_data; and when the cell has
\* stopped the final model has been trained on all of data, the remainder
\* included.
C17_RemainderOnlyTrainedOn ==
    KFoldShuffled =>
        /\ \A f \in 0..(k - 1) :
              Remainder \cap Range(ValidationBlock(data, num_validation_samples, f))
                 = {}
        /\ KFoldPastTraining =>
              /\ "training_data" \in bound
              /\ Remainder \subseteq Range(training_data)
        /\ pc \in {"done", "raised"} =>
              \E i \in 1..Len(log) :
                 /\ log[i].op = "train"
                 /\ log[i].arg = data
                 /\ Remainder \subseteq Range(log[i].arg)

-----------------------------------------------------------------------------
(* C18: Flatten and parameter bookkeeping *)

\* The statement that built layer i of the model: in the sequential notebook
\* a model.summary() call stands between the fifth and the sixth layer.
BuiltLayer(i) ==
    Program(cell)[IF cell = "sequential" /\ i > 5 THEN i + 1 ELSE i]

\* The counts as the claim states them: (k*k*c_in + 1) * c_out for a
\* convolution, (m + 1) * n for a dense layer, none for the other layers.
ClaimedParams(x, layer) ==
    CASE layer.op = "conv" -> (layer.size * layer.size * x[3] + 1) * layer.filters
      [] layer.op = "dense" -> (x[1] + 1) * layer.filters
      [] OTHER -> 0

FlattenLength == IF cell = "sequential" THEN 576 ELSE 1152
TotalParams == IF cell = "sequential" THEN 93322 ELSE 104202

\* C18: the Flatten stage outputs a vector of length height x width x channels
\* of the last convolution output (576, 1152); every layer has the parameter
\* count the claim's formulas give, which is the one printed; every printed
\* total is the sum of the printed counts of the layers the model had then;
\* and the total of the finished model is 93,322 (104,202).
C18_FlattenAndParams ==
    cell \in ConvnetCells =>
        /\ \A i \in 1..Len(outputs) :
              LET layer == BuiltLayer(i)
                  before == IF layer.input # <<>> THEN layer.input
                            ELSE outputs[i - 1]
              IN  /\ layer.op = "flatten" =>
                        /\ BuiltLayer(i - 1).op = "conv"
                        /\ outputs[i] = <<before[1] * before[2] * before[3]>>
                        /\ outputs[i] = <<FlattenLength>>
                  /\ params[i] = ClaimedParams(before, layer)
                  /\ params[i] = PrintedParams(cell)[i]
        /\ totals = SubSeq(PrintedTotals(cell), 1, Len(totals))
        /\ totals # <<>> =>
              totals[Len(totals)] =
                  SumSeq(SubSeq(PrintedParams(cell), 1, Len(summary)))
        /\ pc = "done" => totals[Len(totals)] = TotalParams

C18_Witness ==
    /\ cell \in ConvnetCells
    /\ pc = "done"
    /\ Len(params) = Len(PrintedParams(cell))
    /\ Len(totals) = Len(PrintedTotals(cell))

====
